---- MODULE Spec2Model ----
(***************************************************************************)
(* Model of src/app.py: the Flask handler get_video_info and its helpers   *)
(* is_valid_url and is_supported_platform.                                 *)
(*                                                                         *)
(* Python values are encoded as follows.                                   *)
(*   - str            : a TLA+ string                                      *)
(*   - dict.get(k)    : a sequence of length <= 1; <<>> is "key missing    *)
(*                      (None)", <<v>> is "key present with value v".      *)
(*                      Values that are present are strings or integers.   *)
(*   - list           : a sequence                                         *)
(***************************************************************************)
EXTENDS Integers, Sequences, FiniteSets, TLC

VARIABLES pc, request, video_url, info, formats, unique_formats, outcome,
          stages, extractCalls

vars == <<pc, request, video_url, info, formats, unique_formats, outcome,
          stages, extractCalls>>

---------------------------------------------------------------------------
(* Optional values (the result of dict.get without a default).             *)

None == <<>>
Some(v) == <<v>>
Has(o) == Len(o) > 0
Val(o) == o[1]

\* Python truthiness of dict.get(k) for a string / a number.
TruthyStr(o) == Has(o) /\ Val(o) # ""
TruthyNum(o) == Has(o) /\ Val(o) # 0

\* Python `x or 0` for an optional number.
OrZero(o) == IF TruthyNum(o) THEN Val(o) ELSE 0

---------------------------------------------------------------------------
(* Strings.                                                                *)

UpperChars == "ABCDEFGHIJKLMNOPQRSTUVWXYZ"
LowerChars == "abcdefghijklmnopqrstuvwxyz"
Digits == "0123456789"

CharAt(s, i) == SubSeq(s, i, i)

\* c in chars, for a one-character string c.
InChars(c, chars) == \E i \in 1..Len(chars) : CharAt(chars, i) = c

LowerChar(c) ==
    IF \E i \in 1..Len(UpperChars) : CharAt(UpperChars, i) = c
    THEN CharAt(LowerChars, CHOOSE i \in 1..Len(UpperChars) : CharAt(UpperChars, i) = c)
    ELSE c

RECURSIVE Lower(_)
\* str.lower()
Lower(s) == IF Len(s) = 0 THEN "" ELSE LowerChar(CharAt(s, 1)) \o Lower(SubSeq(s, 2, Len(s)))

\* `sub in s` for strings.
Contains(s, sub) ==
    \E i \in 1..(Len(s) - Len(sub) + 1) : SubSeq(s, i, i + Len(sub) - 1) = sub

\* str.find(c): the first index (1-based) of the one-character string c, 0 if none.
Find(s, c) ==
    IF \E i \in 1..Len(s) : CharAt(s, i) = c
    THEN CHOOSE i \in 1..Len(s) : CharAt(s, i) = c /\ \A j \in 1..(i - 1) : CharAt(s, j) # c
    ELSE 0

Whitespace == " "

RECURSIVE LStrip(_)
LStrip(s) ==
    IF Len(s) > 0 /\ InChars(CharAt(s, 1), Whitespace)
    THEN LStrip(SubSeq(s, 2, Len(s))) ELSE s

RECURSIVE RStrip(_)
RStrip(s) ==
    IF Len(s) > 0 /\ InChars(CharAt(s, Len(s)), Whitespace)
    THEN RStrip(SubSeq(s, 1, Len(s) - 1)) ELSE s

\* str.strip()
Strip(s) == RStrip(LStrip(s))

---------------------------------------------------------------------------
(* urllib.parse.urlparse, as far as the handler reads its result: the      *)
(* scheme and the netloc.                                                  *)

SchemeChars == LowerChars \o UpperChars \o Digits \o "+-."

\* The position of the ':' that ends a scheme, 0 when the URL has no scheme.
SchemeEnd(url) ==
    LET i == Find(url, ":")
    IN IF /\ i > 1
          /\ InChars(CharAt(url, 1), LowerChars \o UpperChars)
          /\ \A j \in 1..(i - 1) : InChars(CharAt(url, j), SchemeChars)
       THEN i ELSE 0

UrlScheme(url) ==
    IF SchemeEnd(url) > 0 THEN Lower(SubSeq(url, 1, SchemeEnd(url) - 1)) ELSE ""

\* What follows the scheme and its ':'.
UrlRest(url) == SubSeq(url, SchemeEnd(url) + 1, Len(url))

\* The netloc: after a leading "//", up to the first of '/', '?', '#'.
UrlNetloc(url) ==
    LET rest == UrlRest(url)
        ends == {i \in 3..Len(rest) : InChars(CharAt(rest, i), "/?#")}
        stop == IF ends = {} THEN Len(rest) + 1
                ELSE CHOOSE i \in ends : \A j \in ends : i <= j
    IN IF Len(rest) >= 2 /\ SubSeq(rest, 1, 2) = "//"
       THEN SubSeq(rest, 3, stop - 1) ELSE ""

\* urlparse raises ValueError("Invalid IPv6 URL") on unbalanced brackets.
UrlParseRaises(url) ==
    LET n == UrlNetloc(url)
    IN \/ Contains(n, "[") /\ ~Contains(n, "]")
       \/ Contains(n, "]") /\ ~Contains(n, "[")

\* is_valid_url(url)
is_valid_url(url) ==
    IF UrlParseRaises(url) THEN FALSE
    ELSE UrlScheme(url) # "" /\ UrlNetloc(url) # ""

supported_domains ==
    << "youtube.com", "youtu.be", "www.youtube.com", "m.youtube.com",
       "facebook.com", "www.facebook.com", "m.facebook.com", "fb.watch" >>

\* is_supported_platform(url)
is_supported_platform(url) ==
    IF UrlParseRaises(url) THEN FALSE
    ELSE LET domain == Lower(UrlNetloc(url))
         IN \E k \in 1..Len(supported_domains) :
               Contains(domain, supported_domains[k])

---------------------------------------------------------------------------
(* Raw format records (the entries of info_dict['formats']) and the        *)
(* normalized formats built from them.                                     *)

Raw(url, vcodec, acodec, height, filesize, filesize_approx, format_note, abr, format_id, ext) ==
    [url |-> url, vcodec |-> vcodec, acodec |-> acodec, height |-> height,
     filesize |-> filesize, filesize_approx |-> filesize_approx,
     format_note |-> format_note, abr |-> abr, format_id |-> format_id,
     ext |-> ext]

\* `if not f.get('url')` / `vcodec == 'none' and acodec == 'none'`: the skip rules.
NoUrl(f) == ~TruthyStr(f.url)
NoStream(f) == f.vcodec = Some("none") /\ f.acodec = Some("none")

\* A skip rule that forgets the codec tags.
Skipped_UrlOnly(f) == NoUrl(f)

Skipped(f) == NoUrl(f) \/ NoStream(f)

\* file_size = f.get('filesize') or f.get('filesize_approx')
FileSize(f) == IF TruthyNum(f.filesize) THEN f.filesize ELSE f.filesize_approx

\* The quality label of a record.
QualityLabel(f) ==
    IF TruthyStr(f.format_note) THEN Val(f.format_note)
    ELSE IF TruthyNum(f.height) THEN ToString(Val(f.height)) \o "p"
    ELSE IF f.vcodec = Some("none")
         THEN IF TruthyNum(f.abr)
              THEN "Audio (" \o ToString(Val(f.abr)) \o "k)" ELSE "Audio"
    ELSE IF Has(f.format_id) THEN Val(f.format_id) ELSE "Unknown"

\* The dict appended to formats.  `raw` is not a key of the dict: it records
\* the position of the raw record the entry was built from.
Normalized(f, i) ==
    [ext |-> IF Has(f.ext) THEN Val(f.ext) ELSE "unknown",
     quality |-> QualityLabel(f),
     size |-> FileSize(f),
     url |-> Val(f.url),
     format_id |-> f.format_id,
     height |-> f.height,
     filesize |-> FileSize(f),
     raw |-> i]

RECURSIVE NormalizeUpTo(_, _)
\* The list formats after the loop has processed raw_formats[1..n].
NormalizeUpTo(raw_formats, n) ==
    IF n = 0 THEN <<>>
    ELSE LET f == raw_formats[n]
             done == NormalizeUpTo(raw_formats, n - 1)
         IN IF Skipped(f) THEN done ELSE Append(done, Normalized(f, n))

NormalizeAll(raw_formats) == NormalizeUpTo(raw_formats, Len(raw_formats))

---------------------------------------------------------------------------
(* Sorting, deduplication and truncation.                                  *)

\* The sort key: (-(height or 0), -(filesize or 0)).
SortKey(x) == << -OrZero(x.height), -OrZero(x.filesize) >>

\* Tuple comparison k1 < k2.
KeyLess(k1, k2) == k1[1] < k2[1] \/ (k1[1] = k2[1] /\ k1[2] < k2[2])

\* A comparison that looks at the height alone.
Before_HeightOnly(x, y) == SortKey(x)[1] < SortKey(y)[1]

\* x must be placed before y, for x later than y in the input.
Before(x, y) == KeyLess(SortKey(x), SortKey(y))

\* x placed into the sorted list s, after every entry it does not precede.
Insert(s, x) ==
    LET later == {i \in 1..Len(s) : Before(x, s[i])}
        at == IF later = {} THEN Len(s) + 1
              ELSE CHOOSE i \in later : \A j \in later : i <= j
    IN SubSeq(s, 1, at - 1) \o <<x>> \o SubSeq(s, at, Len(s))

RECURSIVE SortUpTo(_, _)
SortUpTo(s, n) == IF n = 0 THEN <<>> ELSE Insert(SortUpTo(s, n - 1), s[n])

\* list.sort(key=...): a stable sort.
Sort(s) == SortUpTo(s, Len(s))

\* quality_key = f'{f["quality"]}_{f["ext"]}'
QualityKey(f) == f.quality \o "_" \o f.ext

RECURSIVE DedupUpTo(_, _)
\* <<unique_formats, seen_qualities>> after the loop has processed s[1..n].
DedupUpTo(s, n) ==
    IF n = 0 THEN << <<>>, {} >>
    ELSE LET done == DedupUpTo(s, n - 1)
             k == QualityKey(s[n])
         IN IF k \notin done[2]
            THEN << Append(done[1], s[n]), done[2] \cup {k} >>
            ELSE done

\* A loop that appends every entry.
Deduplicate_KeepAll(s) == s

Deduplicate(s) == DedupUpTo(s, Len(s))[1]

MaxFormats == 10

\* unique_formats[:10]
Truncate(s) == SubSeq(s, 1, IF Len(s) < MaxFormats THEN Len(s) ELSE MaxFormats)

---------------------------------------------------------------------------
(* Outcomes: the JSON body and the status code the handler returns.        *)

NoOutcome ==
    [status |-> 0, error |-> "", message |-> "", title |-> "", thumbnail |-> "",
     formats |-> <<>>, url |-> ""]

Failure(status, error, message) ==
    [NoOutcome EXCEPT !.status = status, !.error = error, !.message = message]

Success(title, thumbnail, fs, url) ==
    [NoOutcome EXCEPT !.status = 200, !.title = title, !.thumbnail = thumbnail,
                      !.formats = fs, !.url = url]

\* A message policy that returns the detail with a leading "ERROR: " removed.
DownloadErrorMessage_Stripped(error_message) ==
    IF Contains(error_message, "Private video") \/ Contains(Lower(error_message), "unavailable")
    THEN "Video is private or unavailable"
    ELSE IF Contains(Lower(error_message), "not found")
    THEN "Video not found"
    ELSE IF Len(error_message) >= 7 /\ SubSeq(error_message, 1, 7) = "ERROR: "
         THEN SubSeq(error_message, 8, Len(error_message))
         ELSE error_message

\* A classification that tests "not found" first.
DownloadErrorMessage_NotFoundFirst(error_message) ==
    IF Contains(Lower(error_message), "not found")
    THEN "Video not found"
    ELSE IF Contains(error_message, "Private video") \/ Contains(Lower(error_message), "unavailable")
    THEN "Video is private or unavailable"
    ELSE "Could not process video: " \o error_message

\* The message of the except yt_dlp.utils.DownloadError branch.
DownloadErrorMessage(error_message) ==
    IF Contains(error_message, "Private video") \/ Contains(Lower(error_message), "unavailable")
    THEN "Video is private or unavailable"
    ELSE IF Contains(Lower(error_message), "not found")
    THEN "Video not found"
    ELSE "Could not process video: " \o error_message

---------------------------------------------------------------------------
(* Inputs: the requests a client sends and the results the extraction      *)
(* adapter (yt_dlp.YoutubeDL.extract_info) gives.                          *)

MaxRaw == 3
MaxLong == 12

\* The url strings of the requests.
Urls ==
    { "", "   ", "not a url", "https:youtube.com/x", "//youtube.com/x",
      "https://[youtube.com/x", "https://vimeo.com/123",
      "https://vimeo.com/youtu.be?u=youtube.com",
      "https://www.youtube.com/watch?v=abc", "https://fb.watch/xyz",
      " HTTPS://YouTu.Be/x ", "https://youtube.com@vimeo.com/1" }

\* What request.get_json() gives: it raises; None; {}; a dict without 'url';
\* a dict whose 'url' is a string; a dict whose 'url' is not a string.
Requests ==
    { [method |-> m, body |-> b, url |-> ""] :
        m \in {"POST"}, b \in {"raises", "null", "empty", "nourl", "nonstring"} }
    \cup { [method |-> "POST", body |-> "url", url |-> u] : u \in Urls }
    \cup { [method |-> "OPTIONS", body |-> "null", url |-> ""] }

OptStr(S) == {None} \cup {Some(v) : v \in S}

\* Records over every combination of the fields the skip rules and the label read.
FieldRecords ==
    { Raw(u, vc, ac, h, None, None, n, abr, id, e) :
        u \in OptStr({"", "a"}), vc \in OptStr({"none", "avc1"}),
        ac \in OptStr({"none", "mp4a"}), h \in OptStr({0, 720}),
        n \in OptStr({"", "HD"}), abr \in OptStr({0, 128}),
        id \in OptStr({"", "18"}), e \in OptStr({"mp4"}) }

\* Records that differ in what the sort and the deduplication read.
Video(url, height, filesize, filesize_approx, format_note, ext) ==
    Raw(Some(url), Some("avc1"), Some("mp4a"), height, filesize, filesize_approx,
        format_note, None, Some("18"), Some(ext))

RankRecords ==
    { Video("a", Some(720), Some(500), None, None, "mp4"),
      Video("b", Some(720), Some(500), None, None, "mp4"),
      Video("c", Some(720), None, Some(300), None, "webm"),
      Video("d", Some(1080), Some(0), None, None, "mp4"),
      Video("e", None, Some(900), None, Some("HD"), "mp4"),
      Video("f", Some(720), Some(500), None, Some("HD_x"), "mp4"),
      Video("g", Some(720), Some(300), None, Some("HD"), "x_mp4"),
      Raw(Some("h"), Some("none"), None, None, Some(200), None, None,
          Some(128), Some("140"), Some("m4a")),
      Raw(None, Some("avc1"), Some("mp4a"), Some(1080), Some(700), None, None,
          None, Some("22"), Some("mp4")) }

RECURSIVE SeqsUpTo(_, _)
\* The sequences over S of length at most n.
SeqsUpTo(S, n) ==
    IF n = 0 THEN {<<>>}
    ELSE LET shorter == SeqsUpTo(S, n - 1)
         IN shorter \cup {Append(s, x) : s \in {t \in shorter : Len(t) = n - 1}, x \in S}

\* Long lists of records of many distinct heights, in several orders.
LongList(n, k) ==
    [i \in 1..n |->
        Video("u", Some(100 * (((i * k) % 11) + 1)), Some(i % 3), None, None, "mp4")]

RawFormatLists ==
    SeqsUpTo(RankRecords, MaxRaw)
    \cup {<<f>> : f \in FieldRecords}
    \cup {LongList(n, k) : n \in (MaxLong - 2)..MaxLong, k \in {1, 3}}

\* The messages of the DownloadError the adapter raises.
ErrorDetails ==
    { "ERROR: Private video. Sign in", "ERROR: This video is private",
      "ERROR: Video unavailable", "ERROR: Video Unavailable in your country",
      "ERROR: HTTP Error 404: Not Found", "ERROR: private page not found",
      "ERROR: Private video not found", "ERROR: Unsupported URL", "timed out" }

AdapterResult(kind, detail, title, thumbnail, fs) ==
    [kind |-> kind, detail |-> detail, title |-> title, thumbnail |-> thumbnail,
     formats |-> fs]

\* What ydl.extract_info gives: a DownloadError, another exception, None, or
\* an info_dict (of the keys title, thumbnail, formats).
AdapterResults ==
    { AdapterResult("DownloadError", d, None, None, None) : d \in ErrorDetails }
    \cup { AdapterResult("Exception", "", None, None, None),
           AdapterResult("None", "", None, None, None),
           AdapterResult("info", "", None, None, None),
           AdapterResult("info", "", Some("T"), Some("th"), None),
           AdapterResult("info", "", None, None,
                         Some(<<Video("a", Some(720), Some(500), None, None, "mp4")>>)) }
    \cup { AdapterResult("info", "", Some("T"), Some("th"), Some(fs)) :
             fs \in RawFormatLists }

\* `not info_dict`: None or an empty dict.
InfoFalsy(r) ==
    r.kind = "None" \/ (~Has(r.title) /\ ~Has(r.thumbnail) /\ ~Has(r.formats))

\* info_dict.get('formats', [])
RawFormats(r) == IF Has(r.formats) THEN Val(r.formats) ELSE <<>>

---------------------------------------------------------------------------
(* The handler, one action per stage.                                      *)

Stages == << "Validating", "Classifying", "Extracting", "Normalizing", "Ranking",
             "Responding" >>

Init ==
    /\ pc = "Validating"
    /\ request \in Requests
    /\ video_url = ""
    /\ info = AdapterResult("None", "", None, None, None)
    /\ formats = <<>>
    /\ unique_formats = <<>>
    /\ outcome = NoOutcome
    /\ stages = <<"Validating">>
    /\ extractCalls = 0

\* The handler returns: the outcome is set and no stage follows.
Return(o) ==
    /\ outcome' = o
    /\ pc' = "Done"
    /\ UNCHANGED stages

\* The handler goes on to the next stage.
Enter(stage) ==
    /\ pc' = stage
    /\ stages' = Append(stages, stage)
    /\ UNCHANGED outcome

InvalidUrl(message) == Failure(400, "error_invalid_url", message)
FetchFailed(message) == Failure(400, "error_fetch_failed", message)
ServerError(message) == Failure(500, "error_server_error", message)

\* if request.method == 'OPTIONS': return jsonify({}), 200
Preflight ==
    /\ pc = "Validating"
    /\ request.method = "OPTIONS"
    /\ Return([NoOutcome EXCEPT !.status = 200])
    /\ UNCHANGED <<request, video_url, info, formats, unique_formats, extractCalls>>

\* get_json, the checks of the body and of the url, strip, is_valid_url.
Validate ==
    /\ pc = "Validating"
    /\ request.method = "POST"
    /\ LET url == Strip(request.url)
       IN \/ /\ request.body \in {"raises", "nonstring"}
             /\ Return(ServerError("An internal server error occurred"))
             /\ UNCHANGED video_url
          \/ /\ request.body \in {"null", "empty"}
             /\ Return(InvalidUrl("No data received"))
             /\ UNCHANGED video_url
          \/ /\ request.body = "nourl"
             /\ Return(InvalidUrl("URL is missing"))
             /\ UNCHANGED video_url
          \/ /\ request.body = "url"
             /\ video_url' = url
             /\ IF url = "" THEN Return(InvalidUrl("URL is empty"))
                ELSE IF ~is_valid_url(url) THEN Return(InvalidUrl("Invalid URL format"))
                ELSE Enter("Classifying")
    /\ UNCHANGED <<request, info, formats, unique_formats, extractCalls>>

\* A classifying stage that lets every platform through.
Classify_NoReject ==
    /\ pc = "Classifying"
    /\ Enter("Extracting")
    /\ UNCHANGED <<request, video_url, info, formats, unique_formats, extractCalls>>

\* if not is_supported_platform(video_url): return ...
Classify ==
    /\ pc = "Classifying"
    /\ IF ~is_supported_platform(video_url)
       THEN Return(InvalidUrl("Unsupported platform. Only YouTube and Facebook are supported."))
       ELSE Enter("Extracting")
    /\ UNCHANGED <<request, video_url, info, formats, unique_formats, extractCalls>>

\* The message for an info_dict without raw formats, were it the one of the
\* empty normalized list.
NoRawFormatsMessage_Downloadable == "No downloadable formats found"

NoRawFormatsMessage == "No video formats available"

\* ydl.extract_info, the checks of info_dict and of raw_formats, and the two
\* except branches around them.
Extract ==
    /\ pc = "Extracting"
    /\ extractCalls' = extractCalls + 1
    /\ \E r \in AdapterResults :
          /\ info' = r
          /\ IF r.kind = "DownloadError"
                THEN Return(FetchFailed(DownloadErrorMessage(r.detail)))
             ELSE IF r.kind = "Exception"
                THEN Return(ServerError("An internal error occurred while processing the video"))
             ELSE IF InfoFalsy(r)
                THEN Return(FetchFailed("Could not extract video information"))
             ELSE IF RawFormats(r) = <<>>
                THEN Return(FetchFailed(NoRawFormatsMessage))
             ELSE Enter("Normalizing")
    /\ UNCHANGED <<request, video_url, formats, unique_formats>>

\* The loop over raw_formats and the check of the list it built.
Normalize ==
    /\ pc = "Normalizing"
    /\ formats' = NormalizeAll(RawFormats(info))
    /\ IF formats' = <<>>
       THEN Return(FetchFailed("No downloadable formats found"))
       ELSE Enter("Ranking")
    /\ UNCHANGED <<request, video_url, info, unique_formats, extractCalls>>

\* formats.sort, the deduplication loop and the slice.
Rank ==
    /\ pc = "Ranking"
    /\ formats' = Sort(formats)
    /\ unique_formats' = Truncate(Deduplicate(formats'))
    /\ Enter("Responding")
    /\ UNCHANGED <<request, video_url, info, extractCalls>>

\* return jsonify(response), 200
Respond ==
    /\ pc = "Responding"
    /\ Return(Success(IF Has(info.title) THEN Val(info.title) ELSE "Unknown Title",
                      IF Has(info.thumbnail) THEN Val(info.thumbnail) ELSE "",
                      unique_formats, video_url))
    /\ UNCHANGED <<request, video_url, info, formats, unique_formats, extractCalls>>

Next ==
    \/ Preflight
    \/ Validate
    \/ Classify
    \/ Extract
    \/ Normalize
    \/ Rank
    \/ Respond

Spec == Init /\ [][Next]_vars

---------------------------------------------------------------------------
(* Properties.                                                             *)

\* The handler has returned a success response to a POST request.
Succeeded == pc = "Done" /\ request.method = "POST" /\ outcome.status = 200

\* The raw record the normalized format x was built from.
RawOf(x) == RawFormats(info)[x.raw]

Pair(x) == <<x.quality, x.ext>>

IsFailure(o, status, error, message) ==
    o.status = status /\ o.error = error /\ o.message = message

\* C1: the formats array of a success response never holds two entries with
\* the same (quality label, extension) pair, and holds at most 10 entries.
C1_UniquePairsAtMostTen ==
    Succeeded =>
        /\ Len(outcome.formats) <= 10
        /\ \A i, j \in 1..Len(outcome.formats) :
              i # j => Pair(outcome.formats[i]) # Pair(outcome.formats[j])

\* C1 witness: twelve normalized formats, eleven distinct pairs, ten returned.
C1_Witness ==
    /\ Succeeded
    /\ Len(formats) > Len(Deduplicate(formats))
    /\ Len(Deduplicate(formats)) > 10
    /\ Len(outcome.formats) = 10

\* The entries of s that no earlier entry of s shares its pair with.
RECURSIVE FirstOfEachPairUpTo(_, _)
FirstOfEachPairUpTo(s, n) ==
    IF n = 0 THEN <<>>
    ELSE IF \E j \in 1..(n - 1) : Pair(s[j]) = Pair(s[n])
         THEN FirstOfEachPairUpTo(s, n - 1)
         ELSE Append(FirstOfEachPairUpTo(s, n - 1), s[n])

\* C2: before truncation, the deduplication keeps exactly the first entry, in
\* sorted order, of every distinct (quality label, extension) pair: an entry
\* is discarded if and only if an earlier entry has the same pair.
C2_DiscardedIffSamePair ==
    (pc \in {"Responding", "Done"} /\ Len(formats) > 0) =>
        Deduplicate(formats) = FirstOfEachPairUpTo(formats, Len(formats))

\* C3: the formats array is ordered by height descending (absent as 0), then
\* by size descending (absent as 0), and entries equal in both keep the order
\* of their raw records.
C3_OrderedAndStable ==
    Succeeded =>
        \A i, j \in 1..Len(outcome.formats) :
            i < j =>
                LET a == outcome.formats[i]
                    b == outcome.formats[j]
                IN /\ OrZero(a.height) >= OrZero(b.height)
                   /\ OrZero(a.height) = OrZero(b.height) => OrZero(a.size) >= OrZero(b.size)
                   /\ (OrZero(a.height) = OrZero(b.height) /\ OrZero(a.size) = OrZero(b.size))
                         => a.raw < b.raw

\* C3 witness: a response where the sort moved a later raw record ahead of an
\* earlier one, and where two entries are equal in height and size.
C3_Witness ==
    /\ Succeeded
    /\ \E i, j \in 1..Len(outcome.formats) :
          i < j /\ outcome.formats[i].raw > outcome.formats[j].raw
    /\ \E i, j \in 1..Len(outcome.formats) :
          /\ i < j
          /\ OrZero(outcome.formats[i].height) = OrZero(outcome.formats[j].height)
          /\ OrZero(outcome.formats[i].size) = OrZero(outcome.formats[j].size)

\* The label the precedence (a)..(e) gives, a height or a bitrate of 0 read
\* as absent.
LabelByPrecedence(f) ==
    IF Has(f.format_note) /\ Val(f.format_note) # "" THEN Val(f.format_note)
    ELSE IF Has(f.height) /\ Val(f.height) # 0 THEN ToString(Val(f.height)) \o "p"
    ELSE IF f.vcodec = <<"none">> /\ Has(f.abr) /\ Val(f.abr) # 0
         THEN "Audio (" \o ToString(Val(f.abr)) \o "k)"
    ELSE IF f.vcodec = <<"none">> THEN "Audio"
    ELSE IF Has(f.format_id) THEN Val(f.format_id)
    ELSE "Unknown"

\* C4: the quality label of every record that is not skipped follows the
\* precedence note, "<height>p", "Audio (<bitrate>k)", "Audio", format
\* identifier, "Unknown", and is a non-empty string.
C4_LabelPrecedenceNonEmpty ==
    \A i \in 1..Len(formats) :
        /\ formats[i].quality = LabelByPrecedence(RawOf(formats[i]))
        /\ formats[i].quality # ""

\* A codec tag that names a codec.
CodecPresent(c) == Has(c) /\ Val(c) # "none"

\* C5 as stated: every entry of the formats array was built from a raw record
\* with a non-empty URL and a video codec or an audio codec present.
C5_UrlAndCodecPresent ==
    Succeeded =>
        \A i \in 1..Len(outcome.formats) :
            LET f == RawOf(outcome.formats[i])
            IN /\ Has(f.url) /\ Val(f.url) # ""
               /\ CodecPresent(f.vcodec) \/ CodecPresent(f.acodec)

\* C5 amended: every entry of the formats array was built from a raw record
\* with a non-empty URL whose codec tags are not both 'none', and carries that
\* record's URL; records without a URL and records with both tags 'none' never
\* appear.
C5_UrlAndNotBothNone ==
    Succeeded =>
        \A i \in 1..Len(outcome.formats) :
            LET f == RawOf(outcome.formats[i])
            IN /\ Has(f.url) /\ Val(f.url) # ""
               /\ outcome.formats[i].url = Val(f.url)
               /\ ~(f.vcodec = <<"none">> /\ f.acodec = <<"none">>)

\* C5 witness: a response built from a list that held a record without a URL,
\* with an entry whose record names no codec (one tag 'none', one missing).
C5_Witness ==
    /\ Succeeded
    /\ \E k \in 1..Len(RawFormats(info)) : ~Has(RawFormats(info)[k].url)
    /\ \E i \in 1..Len(outcome.formats) :
          LET f == RawOf(outcome.formats[i])
          IN ~CodecPresent(f.vcodec) /\ ~CodecPresent(f.acodec)

\* The adapter raised a DownloadError and the handler has returned.
ExtractionFailed == pc = "Done" /\ info.kind = "DownloadError"

\* C6 as stated: a detail containing "private" or "unavailable" in any case
\* gives "Video is private or unavailable"; otherwise one containing
\* "not found" in any case gives "Video not found".
C6_PrivateAnyCase ==
    ExtractionFailed =>
        LET d == Lower(info.detail)
        IN IF Contains(d, "private") \/ Contains(d, "unavailable")
           THEN IsFailure(outcome, 400, "error_fetch_failed", "Video is private or unavailable")
           ELSE Contains(d, "not found") =>
                   IsFailure(outcome, 400, "error_fetch_failed", "Video not found")

\* C6 amended: a detail containing "Private video" (in this very case) or
\* "unavailable" in any case gives "Video is private or unavailable";
\* otherwise one containing "not found" in any case gives "Video not found".
C6_PrivateVideoExactCase ==
    ExtractionFailed =>
        IF Contains(info.detail, "Private video") \/ Contains(Lower(info.detail), "unavailable")
        THEN IsFailure(outcome, 400, "error_fetch_failed", "Video is private or unavailable")
        ELSE Contains(Lower(info.detail), "not found") =>
                IsFailure(outcome, 400, "error_fetch_failed", "Video not found")

\* C6 witness: a detail with "Private video" and "not found" both.
C6_Witness ==
    /\ ExtractionFailed
    /\ Contains(info.detail, "Private video")
    /\ Contains(Lower(info.detail), "not found")
    /\ outcome.message = "Video is private or unavailable"

\* The detail holds none of the three keywords, in any case.
NoKeyword(detail) ==
    /\ ~Contains(Lower(detail), "private")
    /\ ~Contains(Lower(detail), "unavailable")
    /\ ~Contains(Lower(detail), "not found")

WithoutErrorPrefix(detail) ==
    IF Len(detail) >= 7 /\ SubSeq(detail, 1, 7) = "ERROR: "
    THEN SubSeq(detail, 8, Len(detail)) ELSE detail

\* C7 as stated: a detail with none of the keywords gives the detail itself,
\* a leading "ERROR: " removed, as the message.
C7_DetailWithoutPrefix ==
    (ExtractionFailed /\ NoKeyword(info.detail)) =>
        IsFailure(outcome, 400, "error_fetch_failed", WithoutErrorPrefix(info.detail))

\* C7 amended: a detail with none of the keywords gives the message
\* "Could not process video: " followed by the detail, unchanged.
C7_CouldNotProcessDetail ==
    (ExtractionFailed /\ NoKeyword(info.detail)) =>
        IsFailure(outcome, 400, "error_fetch_failed",
                  "Could not process video: " \o info.detail)

\* C7 witness: a detail with the "ERROR: " prefix and none of the keywords.
C7_Witness ==
    /\ ExtractionFailed
    /\ NoKeyword(info.detail)
    /\ SubSeq(info.detail, 1, 7) = "ERROR: "
    /\ outcome.status = 400

\* The adapter returned an info_dict and the handler has returned.
Extracted == pc = "Done" /\ info.kind = "info"

AllSkipped(raw_formats) ==
    \A k \in 1..Len(raw_formats) :
        LET f == raw_formats[k]
        IN \/ ~Has(f.url) \/ Val(f.url) = ""
           \/ (f.vcodec = <<"none">> /\ f.acodec = <<"none">>)

\* C8 as stated: zero raw formats, or every raw record skipped, gives
\* "No downloadable formats found".
C8_NoDownloadableFormats ==
    (Extracted /\ AllSkipped(RawFormats(info))) =>
        IsFailure(outcome, 400, "error_fetch_failed", "No downloadable formats found")

\* C8 amended: a non-empty list of raw records that are all skipped gives
\* "No downloadable formats found"; a non-empty info_dict whose list of raw
\* formats is missing or empty gives "No video formats available"; an empty
\* info_dict gives "Could not extract video information"; each with status
\* 400 and code error_fetch_failed.
C8_MessageByCase ==
    (Extracted /\ AllSkipped(RawFormats(info))) =>
        IsFailure(outcome, 400, "error_fetch_failed",
                  IF Len(RawFormats(info)) > 0 THEN "No downloadable formats found"
                  ELSE IF Has(info.title) \/ Has(info.thumbnail) \/ Has(info.formats)
                       THEN "No video formats available"
                  ELSE "Could not extract video information")

\* C8 witness: a non-empty list of raw records, every one of them skipped.
C8_Witness ==
    /\ Extracted
    /\ Len(RawFormats(info)) > 0
    /\ AllSkipped(RawFormats(info))
    /\ outcome.message = "No downloadable formats found"

\* The position after the last '@' of s, 0 if none.
LastAt(s) ==
    IF \E i \in 1..Len(s) : CharAt(s, i) = "@"
    THEN CHOOSE i \in 1..Len(s) : CharAt(s, i) = "@" /\ \A j \in (i + 1)..Len(s) : CharAt(s, j) # "@"
    ELSE 0

\* The host of a URL: the netloc without user-info and port, lower-cased.
Host(url) ==
    LET n == UrlNetloc(url)
        hostport == SubSeq(n, LastAt(n) + 1, Len(n))
        colon == Find(hostport, ":")
    IN Lower(IF colon = 0 THEN hostport ELSE SubSeq(hostport, 1, colon - 1))

HostAllowed(url) ==
    \E d \in { "youtube.com", "youtu.be", "m.youtube.com", "www.youtube.com",
               "facebook.com", "www.facebook.com", "m.facebook.com", "fb.watch" } :
        Contains(Host(url), d)

\* C9: a URL is classified Supported exactly when its lower-cased host
\* contains an allow-listed domain; no other component decides.
C9_HostDecides ==
    (Len(stages) >= 2 /\ pc # "Classifying") =>
        ((Len(stages) >= 3) <=> HostAllowed(video_url))

\* The url strings that are empty once trimmed, malformed, or of a platform
\* classified Unsupported.
UnacceptableUrls ==
    { u \in Urls : \/ Strip(u) = ""
                   \/ ~is_valid_url(Strip(u))
                   \/ ~is_supported_platform(Strip(u)) }

\* The request is one the handler must reject before extraction.
Rejected ==
    /\ request.method = "POST"
    /\ \/ request.body \in {"null", "empty", "nourl"}
       \/ (request.body = "url" /\ request.url \in UnacceptableUrls)

====
